---- MODULE Spec2Model ----
(***************************************************************************)
(* Execution-safety core of safe-ai-util: the command Executor             *)
(* (src/src/executor.rs) and the Python virtual-environment flows built on *)
(* it (src/src/commands/python.rs).                                        *)
(*                                                                         *)
(* A string of the program (a command name, an argument, a path) is a      *)
(* tuple of its '/'-separated components: ".venv/bin/python" is            *)
(* <<".venv", "bin", "python">>, "/srv/.venv" is <<"/", "srv", ".venv">>,   *)
(* a plain argument "-m" is <<"-m">>.                                      *)
(*                                                                         *)
(* One tool invocation (one process) reads its configuration, runs one     *)
(* handler to completion and exits with a status (spec section 5), so each *)
(* handler is one action; `last` records what the handler of the running   *)
(* invocation was given, what it did (its ordered effects) and what it     *)
(* returned.  Invocations follow one another on the same filesystem.       *)
(***************************************************************************)
EXTENDS Naturals, Sequences, FiniteSets

VARIABLES dry_run, working_directory, onPath, fs, last, pc, exit_code,
          ensured, procs

vars == <<dry_run, working_directory, onPath, fs, last, pc, exit_code, ensured, procs>>

\* ------------------------------------------------------------------ bounds
\* Largest number of positional packages given to `pip install`.
MaxPkgs == 1
\* Largest number of positional test paths given to `run pytest`.
MaxTests == 1

\* ------------------------------------------------------------- vocabulary
None == <<>>

CurDir == <<".">>
DotVenv == <<".venv">>
BuildCache == <<"build_cache">>

\* Values of --path the handlers are run with.
VenvPaths == {DotVenv, BuildCache, CurDir}

\* Bare command names that may or may not be on the search path.
Commands == {<<"buf">>, <<"python3">>, <<"python">>}

\* An interpreter given by absolute path: one that exists, one that does not.
UsrPython == <<"/", "usr", "bin", "python3">>
OptPython == <<"/", "opt", "bin", "python3">>

\* A requirements file that exists and one that does not.
ReqFile == <<"requirements.txt">>
MissingReq == <<"missing.txt">>

\* cfg!(target_os = "windows") of the build that is modelled.
TargetWindows == FALSE

\* How a spawned child can end: exit status 0, a nonzero exit status, killed
\* by a signal (no exit code), or the OS refusing to start it.
ChildOutcomes == {"exit0", "exit1", "signal", "spawnerr"}

\* ---------------------------------------------------------------- results
Ok == [ok |-> TRUE, kind |-> "ok", what |-> None, code |-> ""]

Err(kind, what, code) == [ok |-> FALSE, kind |-> kind, what |-> what, code |-> code]

\* ------------------------------------------------------------- path logic
\* Path::file_name: the last component when it is a normal one; None for a
\* path that ends in the root, "." or "..".
file_name(p) ==
    IF p = <<>> THEN None
    ELSE IF p[Len(p)] \in {"/", ".", ".."} THEN None
    ELSE <<p[Len(p)]>>

is_absolute(p) == p # <<>> /\ p[1] = "/"

\* The directory entry a path names: a leading "." followed by more
\* components names the same entry as the rest.
Canon(p) == IF Len(p) > 1 /\ p[1] = "." THEN Tail(p) ELSE p

\* Path::exists against the filesystem f (the set of entries that exist).
exists(f, p) == Canon(p) \in f

\* Entry e lies strictly inside directory d.
Inside(d, e) ==
    LET c == Canon(d) IN
    IF c = CurDir THEN e # CurDir /\ ~is_absolute(e)
    ELSE Len(e) > Len(c) /\ SubSeq(e, 1, Len(c)) = c

\* fs::remove_dir_all reporting success for a directory that is already gone.
remove_dir_all_IgnoresMissing(f, p) ==
    IF ~exists(f, p)
    THEN [res |-> Ok, fs |-> f]
    ELSE LET emptied == {e \in f : ~Inside(p, e)} IN
         IF file_name(Canon(p)) = None
         THEN [res |-> Err("io error", p, "InvalidInput"), fs |-> emptied]
         ELSE [res |-> Ok, fs |-> emptied \ {Canon(p)}]

\* fs::remove_dir_all outcome: every entry inside the directory is unlinked,
\* then the directory itself is removed; that last rmdir is refused by the OS
\* for a path without a final normal component (rmdir(".") is EINVAL).
remove_dir_all(f, p) ==
    IF ~exists(f, p)
    THEN [res |-> Err("io error", p, "NotFound"), fs |-> f]
    ELSE LET emptied == {e \in f : ~Inside(p, e)} IN
         IF file_name(Canon(p)) = None
         THEN [res |-> Err("io error", p, "InvalidInput"), fs |-> emptied]
         ELSE [res |-> Ok, fs |-> emptied \ {Canon(p)}]

\* which::which: a bare name is looked up on the search path, a name with
\* a directory part is checked on the filesystem.
which(f, command) ==
    IF Len(command) = 1 THEN command \in onPath ELSE exists(f, command)

\* ----------------------------------------------------------- child process
\* What a venv directory holds once `python -m venv <dir>` has succeeded.
VenvImage(p) ==
    LET c == Canon(p) IN
    {c, c \o <<"bin">>, c \o <<"bin", "python">>, c \o <<"bin", "python3">>}

IsVenvCreate(args) == Len(args) >= 3 /\ args[1] = <<"-m">> /\ args[2] = <<"venv">>

\* Filesystem after the child has run: `-m venv <dir>` builds the directory
\* when it exits 0 and may leave a bare directory behind when it fails
\* (residue); every other child is opaque and leaves the entries alone.
ChildEffect(f, args, o, residue) ==
    IF ~IsVenvCreate(args) THEN f
    ELSE IF o = "exit0" THEN f \cup VenvImage(args[Len(args)])
    ELSE IF o \in {"exit1", "signal"} /\ residue THEN f \cup {Canon(args[Len(args)])}
    ELSE f

\* Command::status(): the OS starts the child unless the program cannot be
\* found or started; the child's end is the environment's choice.
SpawnOutcome(f, command, o) ==
    IF which(f, command) THEN o ELSE "spawnerr"

\* ----------------------------------------------------------------- events
\* The ordered effects of one handler run, as they reach the outside world.
EvLog(command, command_args) == <<"executor", command, command_args>>
EvPrint(command, command_args) == <<"print", command, command_args>>
EvWhich(command) == <<"which", command>>
EvSpawn(command, command_args) == <<"spawn", command, command_args, working_directory>>
\* How cmd.status().await came back: the child's end, or the failed start.
EvStatus(so) == <<"status", so>>
EvRemove(p) == <<"remove_dir_all", p>>
EvExists(p) == <<"exists", p>>

Done(res, ev, f) == [res |-> res, ev |-> ev, fs |-> f]

\* ----------------------------------------------------------------- Executor
\* The spawn and wait with success read off the exit code alone, so that a
\* child killed by a signal (no code) passes for a success.
Spawned_CodeOnly(f, command, command_args, o, residue) ==
    LET so == SpawnOutcome(f, command, o) IN
    Done(CASE so = "spawnerr" -> Err("Failed to execute command", command, "os")
           [] so = "exit1" -> Err("Command failed with exit code", command, "Some(1)")
           [] OTHER -> Ok,
         <<EvSpawn(command, command_args), EvStatus(so)>>,
         IF so = "spawnerr" THEN f ELSE ChildEffect(f, command_args, so, residue))

\* Outcome of the spawn and wait at the end of execute_raw.
Spawned(f, command, command_args, o, residue) ==
    LET so == SpawnOutcome(f, command, o) IN
    Done(CASE so = "spawnerr" -> Err("Failed to execute command", command, "os")
           [] so = "exit0" -> Ok
           [] so = "exit1" -> Err("Command failed with exit code", command, "Some(1)")
           [] OTHER -> Err("Command failed with exit code", command, "None"),
         <<EvSpawn(command, command_args), EvStatus(so)>>,
         IF so = "spawnerr" THEN f ELSE ChildEffect(f, command_args, so, residue))

\* execute_raw with the search-path lookup made before the dry-run gate.
execute_raw_LookupFirst(f, args, o, residue) ==
    IF args = <<>>
    THEN Done(Err("No command provided", None, ""), <<>>, f)
    ELSE LET command == args[1]
             command_args == Tail(args)
             log == <<EvLog(command, command_args)>>
         IN  IF ~which(f, command)
             THEN Done(Err("Command not found", command, ""),
                       log \o <<EvWhich(command)>>, f)
             ELSE IF dry_run
             THEN Done(Ok, log \o <<EvPrint(command, command_args)>>, f)
             ELSE LET s == Spawned(f, command, command_args, o, residue) IN
                  Done(s.res, log \o <<EvWhich(command)>> \o s.ev, s.fs)

\* execute_raw without the search-path lookup.
execute_raw_NoLookup(f, args, o, residue) ==
    IF args = <<>>
    THEN Done(Err("No command provided", None, ""), <<>>, f)
    ELSE LET command == args[1]
             command_args == Tail(args)
             log == <<EvLog(command, command_args)>>
         IN  IF dry_run
             THEN Done(Ok, log \o <<EvPrint(command, command_args)>>, f)
             ELSE LET s == Spawned(f, command, command_args, o, residue) IN
                  Done(s.res, log \o s.ev, s.fs)

\* execute_raw with the dry-run gate ahead of the check for an empty invocation.
execute_raw_GateFirst(f, args, o, residue) ==
    IF dry_run
    THEN Done(Ok, <<EvPrint(IF args = <<>> THEN None ELSE args[1],
                            IF args = <<>> THEN <<>> ELSE Tail(args))>>, f)
    ELSE IF args = <<>>
    THEN Done(Err("No command provided", None, ""), <<>>, f)
    ELSE LET command == args[1]
             command_args == Tail(args)
             log == <<EvLog(command, command_args)>>
         IN  IF ~which(f, command)
             THEN Done(Err("Command not found", command, ""),
                       log \o <<EvWhich(command)>>, f)
             ELSE LET s == Spawned(f, command, command_args, o, residue) IN
                  Done(s.res, log \o <<EvWhich(command)>> \o s.ev, s.fs)

\* execute_raw returning from the dry-run gate without the dry-run line.
execute_raw_NoDryRunLine(f, args, o, residue) ==
    IF args = <<>>
    THEN Done(Err("No command provided", None, ""), <<>>, f)
    ELSE LET command == args[1]
             command_args == Tail(args)
             log == <<EvLog(command, command_args)>>
         IN  IF dry_run
             THEN Done(Ok, log, f)
             ELSE IF ~which(f, command)
             THEN Done(Err("Command not found", command, ""),
                       log \o <<EvWhich(command)>>, f)
             ELSE LET s == Spawned(f, command, command_args, o, residue) IN
                  Done(s.res, log \o <<EvWhich(command)>> \o s.ev, s.fs)

execute_raw(f, args, o, residue) ==
    IF args = <<>>
    THEN Done(Err("No command provided", None, ""), <<>>, f)
    ELSE LET command == args[1]
             command_args == Tail(args)
             log == <<EvLog(command, command_args)>>
         IN  IF dry_run
             THEN Done(Ok, log \o <<EvPrint(command, command_args)>>, f)
             ELSE IF ~which(f, command)
             THEN Done(Err("Command not found", command, ""),
                       log \o <<EvWhich(command)>>, f)
             ELSE LET s == Spawned(f, command, command_args, o, residue) IN
                  Done(s.res, log \o <<EvWhich(command)>> \o s.ev, s.fs)

\* Executor::execute_secure(program, args): the contract of execute_raw, with
\* the search-path lookup skipped for an absolute interpreter path.
execute_secure(f, program, args, o, residue) ==
    IF program = <<>>
    THEN Done(Err("No command provided", None, ""), <<>>, f)
    ELSE LET log == <<EvLog(program, args)>> IN
         IF dry_run
         THEN Done(Ok, log \o <<EvPrint(program, args)>>, f)
         ELSE IF is_absolute(program)
         THEN LET s == Spawned(f, program, args, o, residue) IN
              Done(s.res, log \o s.ev, s.fs)
         ELSE IF ~which(f, program)
         THEN Done(Err("Command not found", program, ""), log \o <<EvWhich(program)>>, f)
         ELSE LET s == Spawned(f, program, args, o, residue) IN
              Done(s.res, log \o <<EvWhich(program)>> \o s.ev, s.fs)

\* ------------------------------------------------- Virtual-Environment Manager
default_python(f) ==
    IF which(f, <<"python3">>) THEN <<"python3">> ELSE <<"python">>

venv_bin_dir(venv_path) ==
    IF TargetWindows THEN venv_path \o <<"Scripts">> ELSE venv_path \o <<"bin">>

\* resolve_venv_python preferring the versioned name.
resolve_venv_python_Versioned(f, venv) ==
    LET bin == venv_bin_dir(venv) IN
    IF TargetWindows THEN bin \o <<"python.exe">>
    ELSE LET candidate == bin \o <<"python3">> IN
         IF exists(f, candidate) THEN candidate ELSE bin \o <<"python">>

resolve_venv_python(f, venv) ==
    LET bin == venv_bin_dir(venv) IN
    IF TargetWindows THEN bin \o <<"python.exe">>
    ELSE LET candidate == bin \o <<"python">> IN
         IF exists(f, candidate) THEN candidate ELSE bin \o <<"python3">>

\* guard_remove_venv without the early return for a directory that is gone.
guard_remove_venv_NoAbsentCheck(f, venv_dir, force) ==
    IF file_name(venv_dir) # None /\ file_name(venv_dir) # <<".venv">> /\ ~force
    THEN Done(Err("Refusing to remove directory not named '.venv'", venv_dir, "--force"),
              <<>>, f)
    ELSE LET r == remove_dir_all(f, venv_dir) IN
         Done(r.res, <<EvRemove(venv_dir)>>, r.fs)

\* guard_remove_venv refusing every directory unless forced.
guard_remove_venv_NeedsForce(f, venv_dir, force) ==
    IF ~exists(f, venv_dir)
    THEN Done(Ok, <<>>, f)
    ELSE IF ~force
    THEN Done(Err("Refusing to remove directory not named '.venv'", venv_dir, "--force"),
              <<>>, f)
    ELSE LET r == remove_dir_all(f, venv_dir) IN
         Done(r.res, <<EvRemove(venv_dir)>>, r.fs)

guard_remove_venv(f, venv_dir, force) ==
    IF ~exists(f, venv_dir)
    THEN Done(Ok, <<>>, f)
    ELSE IF file_name(venv_dir) # None /\ file_name(venv_dir) # <<".venv">> /\ ~force
    THEN Done(Err("Refusing to remove directory not named '.venv'", venv_dir, "--force"),
              <<>>, f)
    ELSE LET r == remove_dir_all(f, venv_dir) IN
         Done(r.res, <<EvRemove(venv_dir)>>, r.fs)

\* The "ensure" arm without the early return for a venv that already exists.
venv_ensure_NoReuse(f, venv_path, python, recreate, prompt, o, residue) ==
    LET g == IF exists(f, venv_path) /\ recreate
             THEN guard_remove_venv(f, venv_path, TRUE)
             ELSE Done(Ok, <<>>, f)
        args == <<(<<"-m">>), (<<"venv">>)>>
                \o (IF prompt = None THEN <<>> ELSE <<(<<"--prompt=">> \o prompt)>>)
                \o <<venv_path>>
    IN  IF ~g.res.ok THEN g
        ELSE LET x == execute_secure(g.fs, python, args, o, residue) IN
             Done(x.res, g.ev \o x.ev, x.fs)

\* The "ensure" arm with recreate going through the naming guard unforced.
venv_ensure_Guarded(f, venv_path, python, recreate, prompt, o, residue) ==
    IF exists(f, venv_path) /\ ~recreate
    THEN Done(Ok, <<>>, f)
    ELSE LET g == IF exists(f, venv_path)
                  THEN guard_remove_venv(f, venv_path, FALSE)
                  ELSE Done(Ok, <<>>, f)
             args == <<(<<"-m">>), (<<"venv">>)>>
                     \o (IF prompt = None THEN <<>> ELSE <<(<<"--prompt=">> \o prompt)>>)
                     \o <<venv_path>>
         IN  IF ~g.res.ok THEN g
             ELSE LET x == execute_secure(g.fs, python, args, o, residue) IN
                  Done(x.res, g.ev \o x.ev, x.fs)

\* execute_venv, "ensure" arm.
venv_ensure(f, venv_path, python, recreate, prompt, o, residue) ==
    IF exists(f, venv_path) /\ ~recreate
    THEN Done(Ok, <<>>, f)
    ELSE LET g == IF exists(f, venv_path)
                  THEN guard_remove_venv(f, venv_path, TRUE)
                  ELSE Done(Ok, <<>>, f)
             args == <<(<<"-m">>), (<<"venv">>)>>
                     \o (IF prompt = None THEN <<>> ELSE <<(<<"--prompt=">> \o prompt)>>)
                     \o <<venv_path>>
         IN  IF ~g.res.ok THEN g
             ELSE LET x == execute_secure(g.fs, python, args, o, residue) IN
                  Done(x.res, g.ev \o x.ev, x.fs)

\* execute_venv, "remove" arm.
venv_remove(f, venv_path, force) == guard_remove_venv(f, venv_path, force)

\* The "install" arm without the refusal to run outside a venv.
pip_install_NoVenvCheck(f, venv_path, allow_global, upgrade_pip, req, pkgs, o1, o2, o3) ==
    LET venv_python == resolve_venv_python(f, venv_path)
        using_venv == exists(f, venv_python)
        py == IF using_venv THEN venv_python ELSE default_python(f)
        s1 == IF upgrade_pip
              THEN execute_secure(f, py, <<(<<"-m">>), (<<"pip">>), (<<"install">>),
                                           (<<"--upgrade">>), (<<"pip">>)>>, o1, FALSE)
              ELSE Done(Ok, <<>>, f)
        s2 == IF req = None THEN Done(Ok, <<>>, s1.fs)
              ELSE IF ~exists(s1.fs, req)
              THEN Done(Err("requirements file not found", req, ""),
                        <<EvExists(req)>>, s1.fs)
              ELSE LET x == execute_secure(s1.fs, py,
                                <<(<<"-m">>), (<<"pip">>), (<<"install">>), (<<"-r">>), req>>,
                                o2, FALSE)
                   IN  Done(x.res, <<EvExists(req)>> \o x.ev, x.fs)
        s3 == IF pkgs = <<>> THEN Done(Ok, <<>>, s2.fs)
              ELSE execute_secure(s2.fs, py,
                       <<(<<"-m">>), (<<"pip">>), (<<"install">>)>> \o pkgs, o3, FALSE)
    IN  IF ~s1.res.ok THEN s1
        ELSE IF ~s2.res.ok THEN Done(s2.res, s1.ev \o s2.ev, s2.fs)
        ELSE Done(s3.res, s1.ev \o s2.ev \o s3.ev, s3.fs)

\* The "install" arm carrying on after a failed upgrade-pip step.
pip_install_KeepGoing(f, venv_path, allow_global, upgrade_pip, req, pkgs, o1, o2, o3) ==
    LET venv_python == resolve_venv_python(f, venv_path)
        using_venv == exists(f, venv_python)
        py == IF using_venv THEN venv_python ELSE default_python(f)
        s1 == IF upgrade_pip
              THEN execute_secure(f, py, <<(<<"-m">>), (<<"pip">>), (<<"install">>),
                                           (<<"--upgrade">>), (<<"pip">>)>>, o1, FALSE)
              ELSE Done(Ok, <<>>, f)
        s2 == IF req = None THEN Done(Ok, <<>>, s1.fs)
              ELSE IF ~exists(s1.fs, req)
              THEN Done(Err("requirements file not found", req, ""),
                        <<EvExists(req)>>, s1.fs)
              ELSE LET x == execute_secure(s1.fs, py,
                                <<(<<"-m">>), (<<"pip">>), (<<"install">>), (<<"-r">>), req>>,
                                o2, FALSE)
                   IN  Done(x.res, <<EvExists(req)>> \o x.ev, x.fs)
        s3 == IF pkgs = <<>> THEN Done(Ok, <<>>, s2.fs)
              ELSE execute_secure(s2.fs, py,
                       <<(<<"-m">>), (<<"pip">>), (<<"install">>)>> \o pkgs, o3, FALSE)
    IN  IF ~using_venv /\ ~allow_global
        THEN Done(Err("No venv found", venv_path, "--allow-global"), <<>>, f)
        ELSE IF ~s2.res.ok THEN Done(s2.res, s1.ev \o s2.ev, s2.fs)
        ELSE Done(s3.res, s1.ev \o s2.ev \o s3.ev, s3.fs)

\* execute_pip, "install" arm.  o1, o2, o3 are how the children of the
\* upgrade-pip, requirements and package steps end, should they be spawned.
pip_install(f, venv_path, allow_global, upgrade_pip, req, pkgs, o1, o2, o3) ==
    LET venv_python == resolve_venv_python(f, venv_path)
        using_venv == exists(f, venv_python)
        py == IF using_venv THEN venv_python ELSE default_python(f)
        s1 == IF upgrade_pip
              THEN execute_secure(f, py, <<(<<"-m">>), (<<"pip">>), (<<"install">>),
                                           (<<"--upgrade">>), (<<"pip">>)>>, o1, FALSE)
              ELSE Done(Ok, <<>>, f)
        s2 == IF req = None THEN Done(Ok, <<>>, s1.fs)
              ELSE IF ~exists(s1.fs, req)
              THEN Done(Err("requirements file not found", req, ""),
                        <<EvExists(req)>>, s1.fs)
              ELSE LET x == execute_secure(s1.fs, py,
                                <<(<<"-m">>), (<<"pip">>), (<<"install">>), (<<"-r">>), req>>,
                                o2, FALSE)
                   IN  Done(x.res, <<EvExists(req)>> \o x.ev, x.fs)
        s3 == IF pkgs = <<>> THEN Done(Ok, <<>>, s2.fs)
              ELSE execute_secure(s2.fs, py,
                       <<(<<"-m">>), (<<"pip">>), (<<"install">>)>> \o pkgs, o3, FALSE)
    IN  IF ~using_venv /\ ~allow_global
        THEN Done(Err("No venv found", venv_path, "--allow-global"), <<>>, f)
        ELSE IF ~s1.res.ok THEN s1
        ELSE IF ~s2.res.ok THEN Done(s2.res, s1.ev \o s2.ev, s2.fs)
        ELSE Done(s3.res, s1.ev \o s2.ev \o s3.ev, s3.fs)

\* The "pytest" arm falling back to the system interpreter.
run_pytest_SystemFallback(f, venv_path, addopts, tests, o) ==
    LET py_path == resolve_venv_python(f, venv_path)
        args == <<(<<"-m">>), (<<"pytest">>)>> \o addopts
                \o (IF tests = <<>> THEN <<(<<"tests", "">>)>> ELSE tests)
    IN  execute_secure(f, IF exists(f, py_path) THEN py_path ELSE default_python(f),
                       args, o, FALSE)

\* execute_run, "pytest" arm.
run_pytest(f, venv_path, addopts, tests, o) ==
    LET py_path == resolve_venv_python(f, venv_path)
        args == <<(<<"-m">>), (<<"pytest">>)>> \o addopts
                \o (IF tests = <<>> THEN <<(<<"tests", "">>)>> ELSE tests)
    IN  IF ~exists(f, py_path)
        THEN Done(Err("Venv python not found", py_path, ""), <<>>, f)
        ELSE execute_secure(f, py_path, args, o, FALSE)

\* --------------------------------------------------------------- operations
NoCall == [op |-> "none", args |-> <<>>, path |-> None, python |-> None,
           prompt |-> None, recreate |-> FALSE, force |-> FALSE,
           allow_global |-> FALSE, upgrade_pip |-> FALSE, req |-> None,
           pkgs |-> <<>>, addopts |-> <<>>, tests |-> <<>>,
           out |-> None, pre |-> {}, ev |-> <<>>, res |-> Ok]

\* The dispatched handler ran to completion and returned r to main.
Returned(call, r) ==
    /\ pc' = "returned"
    /\ fs' = r.fs
    /\ last' = [call EXCEPT !.pre = fs, !.ev = r.ev, !.res = r.res]
    /\ UNCHANGED <<dry_run, working_directory, onPath, exit_code, ensured, procs>>

\* Sequences over S of length at most n.
SeqUpTo(S, n) == UNION {[1..k -> S] : k \in 0..n}

RawArgs ==
    {<<>>} \cup {<<c>> \o a : c \in Commands \cup {<<"nosuch">>},
                              a \in {<<>>, <<(<<"lint">>)>>}}

\* How the child of `-m venv` can end, with what it leaves behind on failure.
CreateOutcomes ==
    {<<o, residue>> \in ChildOutcomes \X BOOLEAN : residue => o \in {"exit1", "signal"}}

\* The ends a step's child can come to; a step that is not requested has none
\* to choose.
StepOutcomes(requested) == IF requested THEN ChildOutcomes ELSE {"exit0"}

ExecuteRaw ==
    /\ pc = "start"
    /\ \E args \in RawArgs, o \in ChildOutcomes :
        Returned([NoCall EXCEPT !.op = "execute_raw", !.args = args],
                 execute_raw(fs, args, o, FALSE))

VenvEnsure ==
    /\ pc = "start"
    /\ \E p \in VenvPaths, python \in {<<"python3">>, UsrPython, OptPython},
       recreate \in BOOLEAN, prompt \in {None, <<"dev">>}, c \in CreateOutcomes :
        Returned([NoCall EXCEPT !.op = "ensure", !.path = p, !.python = python,
                                !.recreate = recreate, !.prompt = prompt],
                 venv_ensure(fs, p, python, recreate, prompt, c[1], c[2]))

VenvRemove ==
    /\ pc = "start"
    /\ \E p \in VenvPaths, force \in BOOLEAN :
        Returned([NoCall EXCEPT !.op = "remove", !.path = p, !.force = force],
                 venv_remove(fs, p, force))

ResolveInterpreter ==
    /\ pc = "start"
    /\ \E p \in VenvPaths :
        Returned([NoCall EXCEPT !.op = "resolve", !.path = p,
                                !.out = resolve_venv_python(fs, p)],
                 Done(Ok, <<>>, fs))

PipInstall ==
    /\ pc = "start"
    /\ \E p \in VenvPaths, allow_global \in BOOLEAN, upgrade_pip \in BOOLEAN,
       req \in {None, ReqFile, MissingReq},
       pkgs \in SeqUpTo({<<"pytest">>}, MaxPkgs) :
       \E o1 \in StepOutcomes(upgrade_pip), o2 \in StepOutcomes(req # None),
          o3 \in StepOutcomes(pkgs # <<>>) :
        Returned([NoCall EXCEPT !.op = "pip", !.path = p, !.allow_global = allow_global,
                                !.upgrade_pip = upgrade_pip, !.req = req, !.pkgs = pkgs,
                                !.out = resolve_venv_python(fs, p)],
                 pip_install(fs, p, allow_global, upgrade_pip, req, pkgs, o1, o2, o3))

RunPytest ==
    /\ pc = "start"
    /\ \E p \in VenvPaths, addopts \in {<<>>, <<(<<"-q">>)>>},
       tests \in SeqUpTo({<<"tests", "unit">>}, MaxTests), o \in ChildOutcomes :
        Returned([NoCall EXCEPT !.op = "pytest", !.path = p, !.addopts = addopts,
                                !.tests = tests, !.out = resolve_venv_python(fs, p)],
                 run_pytest(fs, p, addopts, tests, o))

\* main reporting success whatever the handler returned.
main_exit_status_Swallowed(res) == 0

\* main: Ok(()) ends the process with status 0, Err with exit(1).
main_exit_status(res) == IF res.ok THEN 0 ELSE 1

\* main: the handler's result becomes the exit status of the process.
MainExit ==
    /\ pc = "returned"
    /\ pc' = "exited"
    /\ exit_code' = main_exit_status(last.res)
    /\ UNCHANGED <<dry_run, working_directory, onPath, fs, last, ensured, procs>>

\* ------------------------------------------------------------------ initial
\* Directory images a --path can have before the tool runs.
DirImages(p) ==
    LET c == Canon(p) IN
    { {},
      {c},
      {c, c \o <<"bin">>, c \o <<"bin", "python3">>},
      {c, c \o <<"bin">>, c \o <<"bin", "python">>},
      VenvImage(p) }

OnPathChoices == {{}, {<<"python">>}, Commands}

WorkDirs == {None, <<"/", "work">>}

\* Config::load and the environment of one invocation.
Configured ==
    /\ dry_run' \in BOOLEAN
    /\ working_directory' \in WorkDirs
    /\ onPath' \in OnPathChoices

\* The invocation that has just ended was `python venv ensure --path .venv`
\* without --recreate and without dry-run, found `.venv` absent, and succeeded.
EnsuredDotVenv ==
    /\ last.op = "ensure" /\ last.path = DotVenv /\ ~last.recreate
    /\ ~dry_run /\ ~exists(last.pre, DotVenv) /\ last.res.ok

\* The two concurrent invocations of the tool, and one that has not started.
Procs == {1, 2}

Idle == [pc |-> "idle", path |-> None, force |-> FALSE, res |-> Ok, ev |-> <<>>]

\* The next invocation of the tool starts, with its own flags and environment,
\* on the filesystem the earlier ones left.
NextInvocation ==
    /\ pc = "exited"
    /\ pc' = "start"
    /\ Configured
    /\ last' = NoCall
    /\ exit_code' = 0
    /\ ensured' = EnsuredDotVenv
    /\ UNCHANGED <<fs, procs>>

Init ==
    /\ dry_run \in BOOLEAN
    /\ working_directory \in WorkDirs
    /\ onPath \in OnPathChoices
    /\ \E a \in DirImages(DotVenv), b \in {{}, {BuildCache, BuildCache \o <<"data">>}, VenvImage(BuildCache)} :
          fs = {CurDir, UsrPython, ReqFile} \cup a \cup b
    /\ last = NoCall
    /\ pc = "start"
    /\ exit_code = 0
    /\ ensured = FALSE
    /\ procs = [i \in Procs |-> Idle]

Next ==
    \/ ExecuteRaw
    \/ VenvEnsure
    \/ VenvRemove
    \/ ResolveInterpreter
    \/ PipInstall
    \/ RunPytest
    \/ MainExit
    \/ NextInvocation

Spec == Init /\ [][Next]_vars

\* ------------------------------------------- two invocations at the same time
\* `python venv remove` as each of two processes is started: its --path and
\* --force, nothing done yet.
RemoveCalls ==
    {[pc |-> "begin", path |-> p, force |-> f, res |-> Ok, ev |-> <<>>] :
        p \in VenvPaths, f \in BOOLEAN}

\* guard_remove_venv up to the warn! line: the existence check and the name
\* guard, read from the filesystem as it is at that moment.  The process ends
\* here when either of them returns.
RemoveCheck(i) ==
    /\ procs[i].pc = "begin"
    /\ LET g == guard_remove_venv(fs, procs[i].path, procs[i].force) IN
       procs' = [procs EXCEPT ![i] =
                    IF g.ev = <<>>
                    THEN [@ EXCEPT !.pc = "done", !.res = g.res]
                    ELSE [@ EXCEPT !.pc = "checked"]]
    /\ UNCHANGED <<dry_run, working_directory, onPath, fs, last, pc, exit_code, ensured>>

\* guard_remove_venv from the warn! line on: fs::remove_dir_all on the
\* filesystem as it is by then, its error propagated by `?`.
RemoveDelete(i) ==
    /\ procs[i].pc = "checked"
    /\ LET r == remove_dir_all(fs, procs[i].path) IN
       /\ fs' = r.fs
       /\ procs' = [procs EXCEPT ![i] = [@ EXCEPT !.pc = "done", !.res = r.res,
                                                  !.ev = <<EvRemove(procs[i].path)>>]]
    /\ UNCHANGED <<dry_run, working_directory, onPath, last, pc, exit_code, ensured>>

\* Two `python venv remove` processes started on the same filesystem; last.pre
\* keeps the filesystem they were started on.
InitRace ==
    /\ dry_run \in BOOLEAN
    /\ working_directory = None
    /\ onPath = Commands
    /\ \E a \in DirImages(DotVenv), b \in {{}, {BuildCache, BuildCache \o <<"data">>}, VenvImage(BuildCache)} :
          fs = {CurDir, UsrPython, ReqFile} \cup a \cup b
    /\ last = [NoCall EXCEPT !.op = "remove", !.pre = fs]
    /\ pc = "start"
    /\ exit_code = 0
    /\ ensured = FALSE
    /\ procs \in [Procs -> RemoveCalls]

NextRace ==
    \/ \E i \in Procs : RemoveCheck(i)
    \/ \E i \in Procs : RemoveDelete(i)

SpecRace == InitRace /\ [][NextRace]_vars

\* ------------------------------------------------------------------- claims
\* What the claims read off the record of the handler that ran.
Ran(op) == pc # "start" /\ last.op = op

IsProcessEvent(e) == e[1] = "spawn"

\* The handler touched the Executor (and so an interpreter or program) at all.
IsExecutorEvent(e) == e[1] \in {"executor", "print", "which", "spawn"}

NoSpawn == \A i \in DOMAIN last.ev : ~IsProcessEvent(last.ev[i])

NoExecutorCall == \A i \in DOMAIN last.ev : ~IsExecutorEvent(last.ev[i])

NoDeletion == \A i \in DOMAIN last.ev : last.ev[i][1] # "remove_dir_all"

\* The entries of filesystem f that make up the directory p.
Tree(f, p) == {e \in f : e = Canon(p) \/ Inside(p, e)}

\* The final segment of a path as it is written.
FinalSegment(p) == p[Len(p)]

\* C1: with dry_run set, execute_raw on any non-empty invocation, whatever the
\* program (on the search path or not) and arguments, spawns no child process
\* and reports success.
C1_DryRunSpawnsNothing ==
    (Ran("execute_raw") /\ last.args # <<>> /\ dry_run)
        => (last.res = Ok /\ NoSpawn /\ fs = last.pre)

C1_Witness ==
    /\ Ran("execute_raw") /\ dry_run
    /\ last.args # <<>> /\ ~which(last.pre, last.args[1])
    /\ last.res = Ok

\* C2: with dry_run set, venv ensure (recreate or not) and venv remove (force
\* or not) leave every venv directory that was Present before the call Present
\* and unchanged, and report success.
C2_DryRunMutatesNothing ==
    (dry_run /\ (Ran("ensure") \/ Ran("remove")))
        => /\ last.res.ok
           /\ \A p \in VenvPaths :
                exists(last.pre, p) => (exists(fs, p) /\ Tree(fs, p) = Tree(last.pre, p))

\* C3: remove(path, force) on a Present path whose final segment is not
\* exactly ".venv": without force it deletes nothing, fails with the policy
\* violation and the directory still exists; with force the directory is
\* deleted.
C3_GuardedRemoval ==
    (Ran("remove") /\ exists(last.pre, last.path) /\ FinalSegment(last.path) # ".venv")
        => IF ~last.force
           THEN /\ NoDeletion
                /\ fs = last.pre
                /\ last.res.kind = "Refusing to remove directory not named '.venv'"
           ELSE ~exists(fs, last.path)

\* C4: with dry_run unset, execute_raw on a program that is not resolvable on
\* the search path fails with command-not-found naming the program, and
\* attempts no spawn.
C4_NotFoundBeforeSpawn ==
    (Ran("execute_raw") /\ ~dry_run /\ last.args # <<>> /\ ~which(last.pre, last.args[1]))
        => /\ last.res = Err("Command not found", last.args[1], "")
           /\ NoSpawn
           /\ fs = last.pre

C4_Witness ==
    /\ Ran("execute_raw") /\ ~dry_run
    /\ last.args # <<>> /\ last.args[1] = <<"buf">> /\ <<"buf">> \notin onPath
    /\ last.res.kind = "Command not found"

\* C5: ensure with recreate unset on a venv path that is already Present
\* reports success, makes no Executor call and leaves the filesystem as it
\* was, so the same holds of every repetition of the call.
C5_EnsureIdempotent ==
    (Ran("ensure") /\ ~last.recreate /\ exists(last.pre, last.path))
        => (last.res = Ok /\ NoExecutorCall /\ NoDeletion /\ fs = last.pre)

C5_Witness ==
    /\ Ran("ensure") /\ ~last.recreate /\ ~dry_run
    /\ last.path = BuildCache /\ exists(last.pre, BuildCache)
    /\ fs = last.pre

\* The Executor call that `ensure` makes to create the venv at path p.
IsCreateCall(e, python, p) ==
    /\ e[1] = "executor"
    /\ e[2] = python
    /\ IsVenvCreate(e[3])
    /\ e[3][Len(e[3])] = p

RecreatedPresent == Ran("ensure") /\ last.recreate /\ exists(last.pre, last.path)

\* What holds of every forced recreation: the deletion of the directory comes
\* first, is never refused by the naming guard, and nothing of the Executor
\* precedes it; a successful real run leaves exactly a fresh venv at the path.
RecreateRemovesFirst ==
    /\ last.ev # <<>>
    /\ last.ev[1] = EvRemove(last.path)
    /\ \A i \in DOMAIN last.ev : i > 1 => last.ev[i][1] # "remove_dir_all"
    /\ last.res.kind # "Refusing to remove directory not named '.venv'"
    /\ \A e \in last.pre : Inside(last.path, e) /\ e \notin VenvImage(last.path) => e \notin fs
    /\ (last.res.ok /\ ~dry_run) => Tree(fs, last.path) = VenvImage(last.path)

RecreateThenCreates ==
    /\ Len(last.ev) >= 2
    /\ IsCreateCall(last.ev[2], last.python, last.path)

C7_RemoveAbsentIsNoop ==
    /\ (Ran("remove") /\ ~exists(last.pre, last.path))
          => (last.res = Ok /\ last.ev = <<>> /\ fs = last.pre)
    /\ (Ran("remove") /\ last.res.ok) => ~exists(fs, last.path)

C7_Witness ==
    /\ Ran("remove") /\ ~last.force
    /\ last.path = BuildCache /\ ~exists(last.pre, BuildCache)
    /\ last.res = Ok

\* C8: resolve_interpreter neither fails nor touches a process or the
\* filesystem; off Windows it returns <path>/bin/python whenever that entry
\* exists (also when python3 exists too) and <path>/bin/python3 otherwise,
\* also when neither exists.
C8_ResolveInterpreter ==
    (Ran("resolve") \/ Ran("pip") \/ Ran("pytest")) =>
        /\ last.out = IF exists(last.pre, last.path \o <<"bin", "python">>)
                      THEN last.path \o <<"bin", "python">>
                      ELSE last.path \o <<"bin", "python3">>
        /\ Ran("resolve") => (last.res = Ok /\ last.ev = <<>> /\ fs = last.pre)

C8_Witness ==
    /\ Ran("resolve")
    /\ last.out = last.path \o <<"bin", "python3">>
    /\ exists(last.pre, last.out)
    /\ ~exists(last.pre, last.path \o <<"bin", "python">>)

\* The program an Executor event names.
ProgramOf(e) == e[2]

\* C9: pip install fails before touching the Executor when the resolved venv
\* interpreter does not exist and allow-global is unset; and it hands the
\* Executor a program other than the resolved venv interpreter only when
\* allow-global is set and the venv interpreter does not exist.
C9_PipStaysInVenv ==
    Ran("pip") =>
        LET venv_python == resolve_venv_python(last.pre, last.path) IN
        /\ (~exists(last.pre, venv_python) /\ ~last.allow_global)
              => /\ last.res.kind = "No venv found"
                 /\ last.ev = <<>>
                 /\ fs = last.pre
        /\ \A i \in DOMAIN last.ev :
              (IsExecutorEvent(last.ev[i]) /\ ProgramOf(last.ev[i]) # venv_python)
                 => (last.allow_global /\ ~exists(last.pre, venv_python))

C9_Witness ==
    /\ Ran("pip") /\ ~dry_run
    /\ ~last.allow_global /\ last.upgrade_pip /\ last.pkgs # <<>>
    /\ last.path = BuildCache /\ exists(last.pre, BuildCache)
    /\ <<"python3">> \in onPath
    /\ last.res.kind = "No venv found"

\* C10: run pytest spawns a process only if the resolved venv interpreter
\* exists; when it does not, the flow fails with the not-found error naming
\* the expected interpreter path, touches nothing, and never hands the
\* Executor any other interpreter.
C10_PytestNeedsVenvInterpreter ==
    Ran("pytest") =>
        LET py_path == resolve_venv_python(last.pre, last.path) IN
        /\ ~NoSpawn => exists(last.pre, py_path)
        /\ ~exists(last.pre, py_path)
              => /\ last.res = Err("Venv python not found", py_path, "")
                 /\ last.ev = <<>>
                 /\ fs = last.pre
        /\ \A i \in DOMAIN last.ev :
              IsExecutorEvent(last.ev[i]) => ProgramOf(last.ev[i]) = py_path

C10_Witness ==
    /\ Ran("pytest") /\ ~dry_run
    /\ <<"python3">> \in onPath
    /\ ~exists(last.pre, resolve_venv_python(last.pre, last.path))
    /\ last.res.kind = "Venv python not found"
    /\ last.res.what = last.path \o <<"bin", "python3">>

\* ------------------------------------------------ claims on failures and exit
CallerErrorKinds == {"No command provided"}

NotFoundKinds == {"Command not found", "No venv found", "Venv python not found",
                  "requirements file not found"}

PolicyKinds == {"Refusing to remove directory not named '.venv'"}

RanOperation ==
    pc # "start" /\ last.op \in {"execute_raw", "ensure", "remove", "pip", "pytest"}

\* C11: an operation that fails with caller-error, not-found or
\* policy-violation has spawned no process and changed nothing on the
\* filesystem; in particular a failing ensure, with recreate set or not, leaves
\* a venv that was Present before it Present.
C11_FailuresAreAtomic ==
    /\ (RanOperation /\ ~last.res.ok
          /\ last.res.kind \in CallerErrorKinds \cup NotFoundKinds \cup PolicyKinds)
          => (NoSpawn /\ NoDeletion /\ fs = last.pre)
    /\ (Ran("ensure") /\ ~last.res.ok /\ exists(last.pre, last.path))
          => exists(fs, last.path)

\* The status events of the handler that ran, in order.
Statuses == SelectSeq(last.ev, LAMBDA e : e[1] = "status")

\* C12: with dry_run unset and the program found, execute_raw reports success
\* exactly when the child exited with status 0; a nonzero exit code and an end
\* without exit code are both the execution failure, and a failure of the OS to
\* start the process is the distinct spawn error carrying the OS error.
C12_ExitStatusMapping ==
    (Ran("execute_raw") /\ ~dry_run /\ last.args # <<>> /\ which(last.pre, last.args[1]))
        => /\ Len(Statuses) = 1
           /\ LET so == Statuses[1][2] IN
              /\ last.res.ok <=> so = "exit0"
              /\ so = "exit1" => (/\ last.res.kind = "Command failed with exit code"
                                  /\ last.res.code = "Some(1)")
              /\ so = "signal" => (/\ last.res.kind = "Command failed with exit code"
                                   /\ last.res.code = "None")
              /\ so = "spawnerr" => (/\ last.res.kind = "Failed to execute command"
                                     /\ last.res.code = "os")

C12_Witness ==
    /\ Ran("execute_raw") /\ ~dry_run
    /\ last.args # <<>> /\ which(last.pre, last.args[1])
    /\ Statuses = <<EvStatus("signal")>>
    /\ ~last.res.ok /\ last.res.code = "None"

\* C14: execute_raw on an empty invocation fails with the caller error before
\* any side effect, with dry_run set or unset: no spawn, no search-path lookup,
\* no dry-run line.
C14_EmptyInvocationRejected ==
    (Ran("execute_raw") /\ last.args = <<>>)
        => (last.res = Err("No command provided", None, "") /\ last.ev = <<>>
            /\ fs = last.pre)

C14_Witness ==
    /\ Ran("execute_raw") /\ last.args = <<>> /\ dry_run
    /\ last.res.kind = "No command provided"

\* C15: the process ends with a nonzero exit status whenever the dispatched
\* handler returned a failure of any kind, and with status zero only when
\* every operation of the handler's sequence succeeded.
C15_ExitStatusReportsFailure ==
    pc = "exited" =>
        /\ ~last.res.ok => exit_code # 0
        /\ exit_code = 0 =>
              /\ last.res.ok
              /\ \A i \in DOMAIN Statuses : Statuses[i] = EvStatus("exit0")

C15_Witness ==
    /\ pc = "exited" /\ exit_code = 1
    /\ last.op = "pip" /\ Len(Statuses) = 2
    /\ Statuses[1] = EvStatus("exit0") /\ Statuses[2] = EvStatus("signal")

\* ------------------------------------------------------- claims on pip install
\* The argument vectors of the Executor calls the handler made, in order.
ExecutorCalls ==
    LET c == SelectSeq(last.ev, LAMBDA e : e[1] = "executor")
    IN  [i \in DOMAIN c |-> c[i][3]]

UpgradePipArgs == <<(<<"-m">>), (<<"pip">>), (<<"install">>), (<<"--upgrade">>), (<<"pip">>)>>

\* The steps a pip install was asked for, in the order of execute_pip.
RequestedSteps ==
    (IF last.upgrade_pip THEN <<UpgradePipArgs>> ELSE <<>>)
    \o (IF last.req # None
        THEN << <<(<<"-m">>), (<<"pip">>), (<<"install">>), (<<"-r">>), last.req>> >>
        ELSE <<>>)
    \o (IF last.pkgs # <<>>
        THEN << <<(<<"-m">>), (<<"pip">>), (<<"install">>)>> \o last.pkgs >>
        ELSE <<>>)

IsPrefixOf(s, t) == Len(s) <= Len(t) /\ \A i \in DOMAIN s : s[i] = t[i]

\* C18: pip install runs upgrade-pip, then the requirements install, then the
\* package install, each only if requested, and stops at the first step that
\* fails; the requirements file is checked for existence only after a
\* requested upgrade-pip step has run.
C18_PipStepsInOrder ==
    Ran("pip") =>
        /\ IsPrefixOf(ExecutorCalls, RequestedSteps)
        /\ last.res.ok => ExecutorCalls = RequestedSteps
        /\ \A i \in DOMAIN last.ev :
              \/ last.ev[i] = EvStatus("exit0")
              \/ last.ev[i][1] # "status"
              \/ i = Len(last.ev) /\ ~last.res.ok
        /\ \A i \in DOMAIN last.ev :
              last.ev[i][1] = "exists" =>
                  /\ last.ev[i] = EvExists(last.req)
                  /\ last.upgrade_pip =>
                        \E j \in 1..(i - 1) :
                            /\ last.ev[j][1] = "executor"
                            /\ last.ev[j][3] = UpgradePipArgs
                  /\ ~exists(last.pre, last.req) =>
                        (i = Len(last.ev) /\ last.res.kind = "requirements file not found")
                  /\ \A j \in 1..(i - 1) :
                        last.ev[j][1] = "executor" => last.ev[j][3] = UpgradePipArgs

C18_Witness ==
    /\ Ran("pip") /\ ~dry_run
    /\ last.upgrade_pip /\ last.req = ReqFile /\ last.pkgs # <<>>
    /\ Statuses = <<EvStatus("exit0"), EvStatus("exit1")>>
    /\ Len(ExecutorCalls) = 2 /\ ~last.res.ok

\* ---------------------------------------------- claims on the two entry points
\* Programs and argument vectors the two Executor entry points are compared on.
ComparedPrograms == Commands \cup {UsrPython, OptPython, resolve_venv_python(fs, DotVenv)}

ComparedArgs == {<<(<<"-m">>), (<<"venv">>), DotVenv>>, <<(<<"-m">>), (<<"pytest">>)>>}

WithoutLookup(ev) == SelectSeq(ev, LAMBDA e : e[1] # "which")

C13_RoundTripFromAbsent ==
    /\ (pc # "start" /\ EnsuredDotVenv)
          => /\ exists(fs, DotVenv)
             /\ exists(fs, resolve_venv_python(fs, DotVenv))
    /\ (Ran("remove") /\ last.path = DotVenv /\ ~last.force /\ ensured)
          => /\ exists(last.pre, resolve_venv_python(last.pre, DotVenv))
             /\ last.res.ok
             /\ last.ev = <<EvRemove(DotVenv)>>
             /\ ~exists(fs, DotVenv)

C13_Witness ==
    /\ Ran("remove") /\ last.path = DotVenv /\ ~last.force /\ ensured
    /\ exists(last.pre, DotVenv) /\ ~exists(fs, DotVenv) /\ last.res.ok

\* ------------------------------------------------- claims on concurrent removal
BothOnPresentDotVenv ==
    /\ \A i \in Procs : procs[i].path = DotVenv
    /\ exists(last.pre, DotVenv)

BothDone == \A i \in Procs : procs[i].pc = "done"

\* The processes that passed both checks and went on to delete.
Deleters == {i \in Procs : procs[i].ev # <<>>}

\* C17: two remove invocations running concurrently against the same Present
\* `.venv` can both pass the existence and name checks; then one delete
\* succeeds and the other fails with an OS error rather than with the 'nothing
\* to remove' success.  In every interleaving the directory ends Absent and
\* nothing outside it is deleted.
C17_ConcurrentRemoveRace ==
    BothOnPresentDotVenv =>
        /\ fs \subseteq last.pre
        /\ (last.pre \ fs) \subseteq Tree(last.pre, DotVenv)
        /\ (\A i \in Procs : procs[i].pc = "checked") => exists(fs, DotVenv)
        /\ BothDone =>
              /\ Tree(fs, DotVenv) = {}
              /\ Cardinality({i \in Deleters : procs[i].res.ok}) = 1
              /\ \A i \in Deleters :
                    ~procs[i].res.ok => procs[i].res = Err("io error", DotVenv, "NotFound")
              /\ \A i \in Procs \ Deleters : procs[i].res.ok

C17_Witness ==
    /\ BothOnPresentDotVenv /\ BothDone
    /\ Deleters = Procs
    /\ procs[1].res.ok
    /\ procs[2].res = Err("io error", DotVenv, "NotFound")
    /\ ~exists(fs, DotVenv)

====
